---- MODULE Spec2Model ----
(***************************************************************************)
(* Compressed notes: the record-mutation protocol of                       *)
(* programs/compressed-notes/src/lib.rs.                                   *)
(*                                                                         *)
(* The program drives an external Merkle-tree engine (SPL account          *)
(* compression) and an external event log (the Noop program).  An          *)
(* instruction is modelled as a sequence of steps, one per external call,  *)
(* so that the order of the calls inside an instruction is observable.     *)
(* Instructions run one at a time (the host serialises them).              *)
(***************************************************************************)
EXTENDS Naturals, Sequences, FiniteSets

\* ------------------------------------------------------------------ bounds

\* At most MaxLog entries are ever emitted to the event log.
MaxLog == 3

\* ------------------------------------------------------------------ inputs

\* Merkle tree accounts a caller can pass as merkle_tree.
Handles == {"h1", "h2"}

\* Signers a caller can pass as owner.
Owners == {"id1", "id2"}

\* Note texts a caller can pass.
Notes == {"v1", "v2"}

\* (max_depth, max_buffer_size) pairs a caller can pass to tree creation.
ParamInputs == {<<2, 64>>, <<30, 1024>>, <<31, 64>>, <<5, 4>>, <<5, 1025>>}

VARIABLES
    tree,       \* engine: handle -> state of the Merkle tree account
    log,        \* event log: sequence of NoteLog entries, in emission order
    pc,         \* position of the instruction in flight
    op,         \* the instruction in flight (or the last one, once returned)
    calls,      \* external calls made so far by that instruction, in order
    pre,        \* history: the trees and the log as they were when that instruction started
    emitted,    \* history: for each log entry, the tree it was emitted for and its fate
    committed   \* history: handle -> leaves committed by successful instructions, in order

vars == <<tree, log, pc, op, calls, pre, emitted, committed>>

\* ------------------------------------------------------------ leaf codec

\* keccak::hashv(&[note.as_bytes(), owner.key().as_ref()]): a collision-free
\* hash of the note bytes followed by the 32 owner bytes.
hashv(note, owner) == <<note, owner>>

\* NoteLog { leaf_node, owner, note }
NoteLog(leaf_node, owner, note) ==
    [leaf_node |-> leaf_node, owner |-> owner, note |-> note]

\* The authority derived from a fixed seed, the tree's address left out.
tree_authority_shared(merkle_tree) == <<"pda", "program">>

\* seeds = [merkle_tree.key().as_ref()], bump
tree_authority(merkle_tree) == <<"pda", merkle_tree>>

\* ------------------------------------------------------------- tree engine

\* The root the engine holds for a leaf array (collision-free).
Root(leaves) == <<"root", leaves>>

EmptyTree ==
    [init |-> FALSE, max_depth |-> 0, max_buffer_size |-> 0,
     authority |-> <<"none", "none">>, leaves |-> <<>>, prev |-> Root(<<>>)]

\* n < 2^depth: a tree of that depth has room for one more leaf after n.
RECURSIVE HasRoom(_, _)
HasRoom(n, depth) ==
    IF n = 0 THEN TRUE
    ELSE IF depth = 0 THEN FALSE
    ELSE HasRoom(n \div 2, depth - 1)

\* init_empty(authority, params): accepted on an uninitialized handle only.
InitAccepts(h) == ~tree[h].init

InitResult(h, authority, max_depth, max_buffer_size) ==
    [init |-> TRUE, max_depth |-> max_depth, max_buffer_size |-> max_buffer_size,
     authority |-> authority, leaves |-> <<>>, prev |-> Root(<<>>)]

\* append_leaf(authority, leaf): needs a ready tree, its authority and room.
AppendAccepts(h, authority) ==
    /\ tree[h].init
    /\ tree[h].authority = authority
    /\ HasRoom(Len(tree[h].leaves), tree[h].max_depth)

AppendResult(h, leaf) ==
    [tree[h] EXCEPT !.leaves = Append(@, leaf), !.prev = Root(tree[h].leaves)]

\* verify_leaf(tree, root, leaf, index): leaf is at index under the current root.
VerifyAccepts(h, root, leaf, index) ==
    /\ tree[h].init
    /\ root = Root(tree[h].leaves)
    /\ index < Len(tree[h].leaves)
    /\ tree[h].leaves[index + 1] = leaf

\* replace_leaf(authority, root, old_leaf, new_leaf, index)
ReplaceAccepts(h, authority, root, old_leaf, index) ==
    /\ tree[h].authority = authority
    /\ VerifyAccepts(h, root, old_leaf, index)

ReplaceResult(h, new_leaf, index) ==
    [tree[h] EXCEPT !.leaves[index + 1] = new_leaf, !.prev = Root(tree[h].leaves)]

\* ----------------------------------------------------------------- set-up

NoOp == [name |-> "none", h |-> "none", owner |-> "none", args |-> <<>>, result |-> "none"]

Init ==
    /\ tree = [h \in Handles |-> EmptyTree]
    /\ log = <<>>
    /\ pc = "idle"
    /\ op = NoOp
    /\ calls = <<>>
    /\ pre = [tree |-> tree, log |-> log]
    /\ emitted = <<>>
    /\ committed = [h \in Handles |-> <<>>]

\* No instruction is in flight: the host dispatches the next one.
Quiescent == pc = "idle"

\* The instruction in flight has returned Ok or Err to the host.
Returned == pc \in {"DONE", "FAILED"}

\* An external call as the instruction made it, with its outcome.
Call(fn, h, authority, args, ok) ==
    [fn |-> fn, h |-> h, authority |-> authority, args |-> args, ok |-> ok]

\* An instruction starts; result is "none" unless it returns at once.
Begin(name, h, owner, args, result) ==
    /\ Quiescent
    /\ op' = [name |-> name, h |-> h, owner |-> owner, args |-> args, result |-> result]
    /\ calls' = <<>>
    /\ pre' = [tree |-> tree, log |-> log]

\* The bound on the log: an instruction that would emit starts only if there is room.
LogRoom(emits) == emits => Len(log) < MaxLog

Return(result) == op' = [op EXCEPT !.result = result]

NoAuthority == <<"none", "none">>

\* The entry an emission adds to the log, and its history record.
Emit(entry) ==
    /\ log' = Append(log, entry)
    /\ emitted' = Append(emitted, [h |-> op.h, fate |-> "pending"])

\* The fate of the entry emitted by the instruction in flight, if it emitted one.
Settle(fate) ==
    emitted' = IF Len(emitted) > 0 /\ emitted[Len(emitted)].fate = "pending"
               THEN [emitted EXCEPT ![Len(emitted)].fate = fate]
               ELSE emitted

\* The leaves of a tree after the step: what a successful instruction adds to the history.
Commit(h, index) == committed' = [committed EXCEPT ![h] = Append(@, tree'[h].leaves[index + 1])]

\* ---------------------------------------------------------- the stub module

\* create_messages_tree: "Tree creation logic here", Ok(())
create_messages_tree(merkle_tree, max_depth, max_buffer_size) ==
    /\ Begin("create_messages_tree", merkle_tree, "none", <<max_depth, max_buffer_size>>, "Ok")
    /\ pc' = "DONE"
    /\ UNCHANGED <<tree, log, emitted, committed>>

\* append_message: "Message appending logic here", Ok(())
append_message(merkle_tree, sender, message) ==
    /\ Begin("append_message", merkle_tree, sender, <<message>>, "Ok")
    /\ pc' = "DONE"
    /\ UNCHANGED <<tree, log, emitted, committed>>

\* update_message: "Message updating logic here", Ok(())
update_message(merkle_tree, sender, index, root, old_message, new_message) ==
    /\ Begin("update_message", merkle_tree, sender, <<index, root, old_message, new_message>>, "Ok")
    /\ pc' = "DONE"
    /\ UNCHANGED <<tree, log, emitted, committed>>

\* The host takes the instruction's result; the program is ready for the next one.
Finish ==
    /\ Returned
    /\ pc' = "idle"
    /\ op' = NoOp
    /\ calls' = <<>>
    /\ pre' = [tree |-> tree, log |-> log]
    /\ UNCHANGED <<tree, log, emitted, committed>>

\* ------------------------------------------------------- create_note_tree

\* Entry: the accounts and the parameters are bound, the signer seeds built.
create_note_tree(merkle_tree, max_depth, max_buffer_size) ==
    /\ Begin("create_note_tree", merkle_tree, "none", <<max_depth, max_buffer_size>>, "none")
    /\ pc' = "INIT"
    /\ UNCHANGED <<tree, log, emitted, committed>>

\* The same call with its result dropped instead of propagated.
create_note_tree_init_unchecked(ok) ==
    /\ pc = "INIT"
    /\ LET h == op.h
           authority == tree_authority(h)
           accepted == ok /\ InitAccepts(h)
       IN  /\ calls' = Append(calls, Call("init_empty_merkle_tree", h, authority, op.args, accepted))
           /\ tree' = IF accepted
                      THEN [tree EXCEPT ![h] = InitResult(h, authority, op.args[1], op.args[2])]
                      ELSE tree
    /\ pc' = "DONE"
    /\ Return("Ok")
    /\ UNCHANGED <<log, pre, emitted, committed>>

\* init_empty_merkle_tree(cpi_ctx, max_depth, max_buffer_size)?; Ok(())
create_note_tree_init(ok) ==
    /\ pc = "INIT"
    /\ LET h == op.h
           authority == tree_authority(h)
           accepted == ok /\ InitAccepts(h)
       IN  /\ calls' = Append(calls, Call("init_empty_merkle_tree", h, authority, op.args, accepted))
           /\ tree' = IF accepted
                      THEN [tree EXCEPT ![h] = InitResult(h, authority, op.args[1], op.args[2])]
                      ELSE tree
           /\ pc' = IF accepted THEN "DONE" ELSE "FAILED"
           /\ Return(IF accepted THEN "Ok" ELSE "InitError")
    /\ UNCHANGED <<log, pre, emitted, committed>>

\* ------------------------------------------------------------ append_note

\* Step 1 with the two hash inputs in the other order.
leaf_node_swapped == hashv(op.owner, op.args[1])

\* Step 1: let leaf_node = keccak::hashv(&[note.as_bytes(), owner.key().as_ref()])
leaf_node == hashv(op.args[1], op.owner)

\* Step 2 with a leaf of its own in the entry, hashed owner first.
note_log_rehashed == NoteLog(hashv(op.owner, op.args[1]), op.owner, op.args[1])

\* Step 2: let note_log = NoteLog::new(leaf_node.clone(), owner.key().clone(), note)
note_log == NoteLog(leaf_node, op.owner, op.args[1])

\* Entry: the accounts and the note are bound.
append_note(merkle_tree, owner, note) ==
    /\ LogRoom(TRUE)
    /\ Begin("append_note", merkle_tree, owner, <<note>>, "none")
    /\ pc' = "A_LOG"
    /\ UNCHANGED <<tree, log, emitted, committed>>

\* append_note without Step 3: the leaf is appended and no entry is emitted.
append_note_log_silent(ok) ==
    /\ pc = "A_LOG"
    /\ pc' = "A_APPEND"
    /\ UNCHANGED <<tree, log, op, calls, pre, emitted, committed>>

\* Step 3: wrap_application_data_v1(note_log.try_to_vec()?, log_wrapper)?
append_note_log(ok) ==
    /\ pc = "A_LOG"
    /\ calls' = Append(calls, Call("wrap_application_data_v1", op.h, NoAuthority, <<note_log>>, ok))
    /\ IF ok
       THEN /\ Emit(note_log)
            /\ pc' = "A_APPEND"
            /\ UNCHANGED op
       ELSE /\ pc' = "FAILED"
            /\ Return("EmitError")
            /\ UNCHANGED <<log, emitted>>
    /\ UNCHANGED <<tree, pre, committed>>

\* Steps 4 to 7 with the request made again when it fails.
append_note_append_retry(ok) ==
    /\ pc = "A_APPEND"
    /\ LET h == op.h
           authority == tree_authority(h)
           accepted == ok /\ AppendAccepts(h, authority)
       IN  /\ calls' = Append(calls, Call("append", h, authority, <<leaf_node>>, accepted))
           /\ tree' = IF accepted THEN [tree EXCEPT ![h] = AppendResult(h, leaf_node)] ELSE tree
           /\ IF accepted THEN Commit(h, Len(tree[h].leaves)) ELSE UNCHANGED committed
           /\ IF accepted THEN Settle("committed") ELSE UNCHANGED emitted
           /\ pc' = IF accepted THEN "DONE" ELSE "A_APPEND"
           /\ IF accepted THEN Return("Ok") ELSE UNCHANGED op
    /\ UNCHANGED <<log, pre>>

\* Steps 4 to 7: append(cpi_ctx, leaf_node)?; Ok(())
append_note_append(ok) ==
    /\ pc = "A_APPEND"
    /\ LET h == op.h
           authority == tree_authority(h)
           accepted == ok /\ AppendAccepts(h, authority)
       IN  /\ calls' = Append(calls, Call("append", h, authority, <<leaf_node>>, accepted))
           /\ tree' = IF accepted THEN [tree EXCEPT ![h] = AppendResult(h, leaf_node)] ELSE tree
           /\ IF accepted THEN Commit(h, Len(tree[h].leaves)) ELSE UNCHANGED committed
           /\ Settle(IF accepted THEN "committed" ELSE "orphan")
           /\ pc' = IF accepted THEN "DONE" ELSE "FAILED"
           /\ Return(IF accepted THEN "Ok" ELSE "AppendError")
    /\ UNCHANGED <<log, pre>>

\* ------------------------------------------------------------ update_note

\* Step 1 of update_note with the two hash inputs in the other order.
old_leaf_swapped == hashv(op.owner, op.args[3])

\* Step 1: let old_leaf = keccak::hashv(&[old_note.as_bytes(), owner.key().as_ref()])
old_leaf == hashv(op.args[3], op.owner)

\* Step 6: let new_leaf = keccak::hashv(&[new_note.as_bytes(), owner.key().as_ref()])
new_leaf == hashv(op.args[4], op.owner)

\* Step 7 with the old note logged in place of the new one.
new_note_log_stale == NoteLog(old_leaf, op.owner, op.args[3])

\* Step 7: let note_log = NoteLog::new(new_leaf.clone(), owner.key().clone(), new_note)
new_note_log == NoteLog(new_leaf, op.owner, op.args[4])

\* update_note without Step 4: equal notes go on to verification like any others.
update_note_ungated(merkle_tree, owner, index, root, old_note, new_note) ==
    /\ LogRoom(VerifyAccepts(merkle_tree, root, hashv(old_note, owner), index))
    /\ Begin("update_note", merkle_tree, owner, <<index, root, old_note, new_note>>, "none")
    /\ pc' = "VERIFY"
    /\ UNCHANGED <<tree, log, emitted, committed>>

\* update_note without Step 5: differing notes go straight to the emission.
update_note_unverified(merkle_tree, owner, index, root, old_note, new_note) ==
    /\ LogRoom(old_note # new_note)
    /\ Begin("update_note", merkle_tree, owner, <<index, root, old_note, new_note>>,
             IF old_note = new_note THEN "Ok" ELSE "none")
    /\ pc' = IF old_note = new_note THEN "DONE" ELSE "LOG"
    /\ UNCHANGED <<tree, log, emitted, committed>>

\* Entry: Steps 1 to 4, the old leaf is computed and the two notes are compared;
\* equal notes return Ok(()) after msg!("Notes are the same!").
update_note(merkle_tree, owner, index, root, old_note, new_note) ==
    /\ LogRoom(old_note # new_note
               /\ VerifyAccepts(merkle_tree, root, hashv(old_note, owner), index))
    /\ Begin("update_note", merkle_tree, owner, <<index, root, old_note, new_note>>,
             IF old_note = new_note THEN "Ok" ELSE "none")
    /\ pc' = IF old_note = new_note THEN "DONE" ELSE "VERIFY"
    /\ UNCHANGED <<tree, log, emitted, committed>>

\* Step 5 with the result of verify_leaf dropped instead of propagated.
update_note_verify_unchecked ==
    /\ pc = "VERIFY"
    /\ LET h == op.h
           index == op.args[1]
           root == op.args[2]
           accepted == VerifyAccepts(h, root, old_leaf, index)
       IN  calls' = Append(calls, Call("verify_leaf", h, NoAuthority, <<root, old_leaf, index>>, accepted))
    /\ pc' = "LOG"
    /\ UNCHANGED <<tree, log, op, pre, emitted, committed>>

\* Step 5: verify_leaf(verify_cpi_ctx, root, old_leaf, index)?
update_note_verify ==
    /\ pc = "VERIFY"
    /\ LET h == op.h
           index == op.args[1]
           root == op.args[2]
           accepted == VerifyAccepts(h, root, old_leaf, index)
       IN  /\ calls' = Append(calls, Call("verify_leaf", h, NoAuthority, <<root, old_leaf, index>>, accepted))
           /\ pc' = IF accepted THEN "LOG" ELSE "FAILED"
           /\ IF accepted THEN UNCHANGED op ELSE Return("VerifyError")
    /\ UNCHANGED <<tree, log, pre, emitted, committed>>

\* Steps 6 to 10 reordered: the replacement is requested before the emission.
update_note_log_replacing(ok) ==
    /\ pc = "LOG"
    /\ LET h == op.h
           index == op.args[1]
           accepted == ReplaceAccepts(h, tree_authority(h), op.args[2], old_leaf, index)
       IN  tree' = IF accepted THEN [tree EXCEPT ![h] = ReplaceResult(h, new_leaf, index)] ELSE tree
    /\ calls' = Append(calls, Call("wrap_application_data_v1", op.h, NoAuthority, <<new_note_log>>, ok))
    /\ IF ok
       THEN /\ Emit(new_note_log)
            /\ pc' = "REPLACE"
            /\ UNCHANGED op
       ELSE /\ pc' = "FAILED"
            /\ Return("EmitError")
            /\ UNCHANGED <<log, emitted>>
    /\ UNCHANGED <<pre, committed>>

\* Steps 6 to 8 with the result of the emission dropped instead of propagated.
update_note_log_unchecked(ok) ==
    /\ pc = "LOG"
    /\ calls' = Append(calls, Call("wrap_application_data_v1", op.h, NoAuthority, <<new_note_log>>, ok))
    /\ IF ok THEN Emit(new_note_log) ELSE UNCHANGED <<log, emitted>>
    /\ pc' = "REPLACE"
    /\ UNCHANGED <<tree, op, pre, committed>>

\* update_note_log emitting the entry twice.
update_note_log_twice(ok) ==
    /\ pc = "LOG"
    /\ calls' = Append(calls, Call("wrap_application_data_v1", op.h, NoAuthority, <<new_note_log>>, ok))
    /\ IF ok
       THEN /\ log' = log \o <<new_note_log, new_note_log>>
            /\ emitted' = emitted \o <<[h |-> op.h, fate |-> "orphan"], [h |-> op.h, fate |-> "pending"]>>
            /\ pc' = "REPLACE"
            /\ UNCHANGED op
       ELSE /\ pc' = "FAILED"
            /\ Return("EmitError")
            /\ UNCHANGED <<log, emitted>>
    /\ UNCHANGED <<tree, pre, committed>>

\* Steps 6 to 8: wrap_application_data_v1(note_log.try_to_vec()?, log_wrapper)?
update_note_log(ok) ==
    /\ pc = "LOG"
    /\ calls' = Append(calls, Call("wrap_application_data_v1", op.h, NoAuthority, <<new_note_log>>, ok))
    /\ IF ok
       THEN /\ Emit(new_note_log)
            /\ pc' = "REPLACE"
            /\ UNCHANGED op
       ELSE /\ pc' = "FAILED"
            /\ Return("EmitError")
            /\ UNCHANGED <<log, emitted>>
    /\ UNCHANGED <<tree, pre, committed>>

\* Steps 9 and 10: replace_leaf(modify_cpi_ctx, root, old_leaf, new_leaf, index)?; Ok(())
update_note_replace(ok) ==
    /\ pc = "REPLACE"
    /\ LET h == op.h
           authority == tree_authority(h)
           index == op.args[1]
           root == op.args[2]
           accepted == ok /\ ReplaceAccepts(h, authority, root, old_leaf, index)
       IN  /\ calls' = Append(calls, Call("replace_leaf", h, authority, <<root, old_leaf, new_leaf, index>>, accepted))
           /\ tree' = IF accepted THEN [tree EXCEPT ![h] = ReplaceResult(h, new_leaf, index)] ELSE tree
           /\ IF accepted THEN Commit(h, index) ELSE UNCHANGED committed
           /\ Settle(IF accepted THEN "committed" ELSE "orphan")
           /\ pc' = IF accepted THEN "DONE" ELSE "FAILED"
           /\ Return(IF accepted THEN "Ok" ELSE "ReplaceError")
    /\ UNCHANGED <<log, pre>>

\* ------------------------------------------------------------ the program

\* Roots a caller can claim for a tree: the current one and the one before the last
\* change (a root read earlier and gone stale).
RootInputs(h) == {Root(tree[h].leaves), tree[h].prev}

\* Indices a caller can claim: the assigned ones and the next one.
IndexInputs(h) == 0 .. Len(tree[h].leaves)

\* One step of the program, with the callers' inputs drawn from the given sets.
NextOn(H, O, N, P) ==
    \/ \E h \in H, p \in P : create_messages_tree(h, p[1], p[2])
    \/ \E h \in H, s \in O, m \in N : append_message(h, s, m)
    \/ \E h \in H, s \in O, m \in N : update_message(h, s, 0, Root(tree[h].leaves), m, m)
    \/ Finish
    \/ \E h \in H, p \in P : create_note_tree(h, p[1], p[2])
    \/ \E ok \in BOOLEAN : create_note_tree_init(ok)
    \/ \E h \in H, o \in O, n \in N : append_note(h, o, n)
    \/ \E ok \in BOOLEAN : append_note_log(ok)
    \/ \E ok \in BOOLEAN : append_note_append(ok)
    \/ \E h \in H, o \in O, m \in N, n \in N :
          \E i \in IndexInputs(h), r \in RootInputs(h) : update_note(h, o, i, r, m, n)
    \/ update_note_verify
    \/ \E ok \in BOOLEAN : update_note_log(ok)
    \/ \E ok \in BOOLEAN : update_note_replace(ok)

\* One tree, two owners, valid creation parameters.
Next == NextOn({"h1"}, Owners, Notes, {<<30, 1024>>})

Spec == Init /\ [][Next]_vars

\* One tree, one owner, every creation parameter pair.
NextParams == NextOn({"h1"}, {"id1"}, Notes, ParamInputs)

SpecParams == Init /\ [][NextParams]_vars

\* Two trees, one owner.
NextTrees == NextOn(Handles, {"id1"}, Notes, {<<30, 1024>>})

SpecTrees == Init /\ [][NextTrees]_vars

\* A step of the instruction in flight: an external call is made and returns.
Step ==
    \/ \E ok \in BOOLEAN : create_note_tree_init(ok)
    \/ \E ok \in BOOLEAN : append_note_log(ok)
    \/ \E ok \in BOOLEAN : append_note_append(ok)
    \/ update_note_verify
    \/ \E ok \in BOOLEAN : update_note_log(ok)
    \/ \E ok \in BOOLEAN : update_note_replace(ok)

\* The program of Spec where every external call returns: calls are synchronous,
\* an instruction in flight is never left waiting.
SpecLive == Spec /\ WF_vars(Step)

\* ------------------------------------------------------------------ claims

\* The tree the instruction in flight works on, as it is and as it was at its start.
Leaves == tree[op.h].leaves
LeavesBefore == pre.tree[op.h].leaves

\* The instruction left the trees and the log as they were when it started.
NoEffect == tree = pre.tree /\ log = pre.log

\* The external calls the instruction has made to fn.
CallsTo(fn) == {k \in 1 .. Len(calls) : calls[k].fn = fn}

\* C1: create_tree fails with InvalidParameter, without any call to the tree
\* engine, whenever max_depth is outside [3, 30] or max_buffer_size is outside
\* [8, 1024].
C1_CreateValidates ==
    (op.name = "create_note_tree"
        /\ ~(op.args[1] \in 3 .. 30 /\ op.args[2] \in 8 .. 1024))
    => /\ calls = <<>>
       /\ Returned => op.result = "InvalidParameter"

\* C2: update called with old_content equal to new_content returns a failure,
\* never a success result, for every index and claimed root.
C2_IdenticalContentFails ==
    (op.name = "update_note" /\ Returned /\ op.args[3] = op.args[4])
    => op.result # "Ok"

\* C3: update called with old_content equal to new_content makes no verify_leaf
\* or replace_leaf request and emits no Log Entry: the trees and the log are as
\* they were before the call.
C3_IdenticalContentNoEffect ==
    (op.name = "update_note" /\ op.args[3] = op.args[4])
    => /\ calls = <<>>
       /\ NoEffect

\* C3 witness: an update with equal notes has returned, on a tree where the
\* claimed root, index and old note are all current, so that verification
\* would have passed.
C3_Witness ==
    /\ op.name = "update_note"
    /\ op.args[3] = op.args[4]
    /\ Returned
    /\ VerifyAccepts(op.h, op.args[2], old_leaf, op.args[1])

\* Every leaf of every tree is the leaf of some entry of the log.
LeavesLogged ==
    \A h \in Handles : \A i \in 1 .. Len(tree[h].leaves) :
        \E k \in 1 .. Len(log) : log[k].leaf_node = tree[h].leaves[i]

\* A step that puts a leaf into a tree finds an entry for that leaf already in the log.
NewLeafLogged ==
    \A h \in Handles : \A i \in 1 .. Len(tree'[h].leaves) :
        (i > Len(tree[h].leaves) \/ tree'[h].leaves[i] # tree[h].leaves[i])
        => \E k \in 1 .. Len(log) : log[k].leaf_node = tree'[h].leaves[i]

\* C4: in every reachable state every leaf committed in a tree has a Log Entry
\* carrying the same leaf hash, and that entry was emitted before the leaf was
\* committed, also when instructions fail at an external call.
C4_LeafLoggedFirst == [](LeavesLogged) /\ [][NewLeafLogged]_vars

\* C4 witness: an append or an update has just committed a leaf.
C4_Witness ==
    /\ op.name \in {"append_note", "update_note"}
    /\ pc = "DONE"
    /\ Leaves # LeavesBefore

\* C5: in update the verify_leaf request for (claimed_root, old_leaf, index)
\* completes successfully before any Log Entry is emitted and before
\* replace_leaf is requested; if verification fails the update fails, no Log
\* Entry is emitted and no replace_leaf request is made.
C5_VerifyFirst ==
    op.name = "update_note"
    => LET verified ==
               /\ Len(calls) >= 1
               /\ calls[1] = Call("verify_leaf", op.h, NoAuthority,
                                  <<op.args[2], hashv(op.args[3], op.owner), op.args[1]>>, TRUE)
       IN  /\ \A k \in CallsTo("wrap_application_data_v1") \cup CallsTo("replace_leaf") :
                  k > 1 /\ verified
           /\ log # pre.log => verified
           /\ \A k \in CallsTo("verify_leaf") :
                  ~calls[k].ok
                  => /\ pc = "FAILED"
                     /\ op.result = "VerifyError"
                     /\ Len(calls) = 1
                     /\ NoEffect

\* C5 witness: an update has verified, emitted and replaced, in that order.
C5_Witness ==
    /\ op.name = "update_note"
    /\ pc = "DONE"
    /\ Len(calls) = 3
    /\ calls[1].fn = "verify_leaf"
    /\ calls[2].fn = "wrap_application_data_v1"
    /\ calls[3].fn = "replace_leaf"

\* C5 witness of the failing branch: an update has failed at verification.
C5_WitnessFailed ==
    /\ op.name = "update_note"
    /\ pc = "FAILED"
    /\ op.result = "VerifyError"

\* C6: an update that supplies a stale root (one that is not the engine's
\* current root for the tree) or, once an update has succeeded on the tree, an
\* old content that is not the one at the index, is rejected by the verify
\* step: it fails with a verification (consistency) error and changes neither
\* the tree nor the log.
C6_StaleUpdateRejected ==
    (/\ op.name = "update_note"
     /\ Returned
     /\ \/ op.args[2] # Root(LeavesBefore)
        \/ /\ Len(committed[op.h]) > Len(LeavesBefore)
           /\ ~(/\ op.args[1] < Len(LeavesBefore)
                /\ LeavesBefore[op.args[1] + 1] = hashv(op.args[3], op.owner)))
    => /\ op.result = "VerifyError"
       /\ NoEffect

\* What is left of C6 when the two notes differ: checked alongside, it holds.
C6_StaleUpdateRejectedIfDifferent ==
    (op.name = "update_note" /\ op.args[3] # op.args[4]) => C6_StaleUpdateRejected

\* The leaves of the entries emitted for tree h whose fate is in fates, in log order.
EntryLeaves(h, fates) ==
    LET picked == SelectSeq([k \in 1 .. Len(log) |-> k],
                            LAMBDA k : emitted[k].h = h /\ emitted[k].fate \in fates)
    IN  [j \in 1 .. Len(picked) |-> log[picked[j]].leaf_node]

AllFates == {"pending", "committed", "orphan"}

\* Between instructions, or with the result of one just returned.
AtRest == Quiescent \/ Returned

\* C7: for any sequence of append and update calls on a handle, the number of
\* emitted Log Entries equals the number of successful calls whose update
\* content was not identical, and the k-th entry's leaf equals the leaf
\* committed to the tree by the k-th such call.
C7_EntryPerSuccess ==
    AtRest => \A h \in Handles : EntryLeaves(h, AllFates) = committed[h]

\* C7 as amended: the entries of calls that went on to succeed are as many as
\* the successful calls with differing content, and the k-th of them carries
\* the leaf committed by the k-th such call; every call that emitted and then
\* failed at append_leaf or replace_leaf leaves one further entry in the log.
C7_EntryPerSuccessOrOrphan ==
    AtRest
    => \A h \in Handles :
          /\ EntryLeaves(h, {"committed"}) = committed[h]
          /\ Len(EntryLeaves(h, AllFates))
                = Len(committed[h]) + Len(EntryLeaves(h, {"orphan"}))

\* C7 witness: a call has failed after emitting, on a tree that also holds a
\* committed leaf.
C7_Witness ==
    /\ pc = "FAILED"
    /\ op.result \in {"AppendError", "ReplaceError"}
    /\ Len(committed[op.h]) >= 1
    /\ Len(EntryLeaves(op.h, {"orphan"})) >= 1

\* C8: after a successful append(h, id, c) exactly one new Log Entry exists,
\* with leaf leaf(c, id), identity id and content c; the tree has exactly one
\* more leaf than before; and verify_leaf with the resulting root, the index
\* assigned to the new leaf and leaf(c, id) succeeds.
C8_AppendCommits ==
    (op.name = "append_note" /\ pc = "DONE")
    => LET c == op.args[1]
           id == op.owner
       IN  /\ log = Append(pre.log, NoteLog(hashv(c, id), id, c))
           /\ Len(Leaves) = Len(LeavesBefore) + 1
           /\ SubSeq(Leaves, 1, Len(LeavesBefore)) = LeavesBefore
           /\ VerifyAccepts(op.h, Root(Leaves), hashv(c, id), Len(LeavesBefore))

\* C8 witness: an append has succeeded on a tree that already held a leaf.
C8_Witness ==
    /\ op.name = "append_note"
    /\ pc = "DONE"
    /\ Len(LeavesBefore) >= 1

\* No call on tree h has failed after emitting.
Clean(h) == EntryLeaves(h, {"orphan"}) = <<>>

\* C9: the ordered sequence of emitted Log Entries alone determines the tree
\* state: two executions of successful appends and updates on one handle that
\* emit the same entries end with the same leaf array.  Any sequence of
\* entries is also emitted by the execution that appends them one by one,
\* which ends with their leaves in order; so the claim says that every
\* execution ends with the leaves of its entries, in order.
C9_LogDeterminesTree ==
    AtRest
    => \A h \in Handles : Clean(h) => tree[h].leaves = EntryLeaves(h, AllFates)

\* C9 as amended: the entries determine the leaf array when every successful
\* call was an append (the tree then holds as many leaves as calls succeeded);
\* an entry carries no index, so an update and an append of the same note emit
\* the same entry and leave different leaf arrays.
C9_LogDeterminesAppendedTree ==
    AtRest
    => \A h \in Handles :
          (Clean(h) /\ Len(tree[h].leaves) = Len(committed[h]))
          => tree[h].leaves = EntryLeaves(h, AllFates)

\* C9 witness: two appends have succeeded on a tree and nothing else was emitted for it.
C9_Witness ==
    /\ AtRest
    /\ Clean("h1")
    /\ Len(tree["h1"].leaves) = 2
    /\ Len(committed["h1"]) = 2

\* C10: every successful call of append_note or of append_message appends
\* exactly one new leaf to the tree and emits exactly one Log Entry.
C10_AppendEntryPoints ==
    (op.name \in {"append_note", "append_message"} /\ pc = "DONE")
    => /\ Len(Leaves) = Len(LeavesBefore) + 1
       /\ Len(log) = Len(pre.log) + 1

\* The requests that change a tree.
Mutations == {"init_empty_merkle_tree", "append", "replace_leaf"}

\* C11: every request the program sends to the tree engine for a handle
\* (init_empty, append_leaf, replace_leaf) is signed by the authority derived
\* from that handle's own address; the authority of one handle is never that of
\* another, so a request signed for h1 changes no other tree, and every tree
\* is bound to the authority derived from its own address.
C11_OwnAuthority ==
    /\ \A k \in 1 .. Len(calls) :
          calls[k].fn \in Mutations
          => /\ calls[k].h = op.h
             /\ calls[k].authority = tree_authority(op.h)
             /\ \A h \in Handles \ {op.h} :
                   /\ calls[k].authority # tree_authority(h)
                   /\ tree[h] = pre.tree[h]
    /\ \A h \in Handles : tree[h].init => tree[h].authority = tree_authority(h)

\* C11 witness: a leaf has been appended to h2 while h1 is a ready tree too.
C11_Witness ==
    /\ op.name = "append_note"
    /\ op.h = "h2"
    /\ pc = "DONE"
    /\ tree["h1"].init

\* A create_note_tree on an initialized handle fails at its one request and changes nothing.
RecreateFails ==
    (op.name = "create_note_tree" /\ pre.tree[op.h].init /\ Returned)
    => /\ pc = "FAILED"
       /\ op.result = "InitError"
       /\ Len(calls) = 1
       /\ NoEffect

\* A ready tree stays ready, with the parameters and the authority it was created with.
StaysReady ==
    \A h \in Handles :
        tree[h].init
        => /\ tree'[h].init
           /\ tree'[h].max_depth = tree[h].max_depth
           /\ tree'[h].max_buffer_size = tree[h].max_buffer_size
           /\ tree'[h].authority = tree[h].authority

\* C12: create_tree invoked on a handle that is already initialized fails, is
\* not retried, and leaves that tree's leaves, root and parameters unchanged; a
\* handle goes from uninitialized to ready at most once and never returns to
\* uninitialized.
C12_CreateOnce == [](RecreateFails) /\ [][StaysReady]_vars

\* C12 witness: a create_note_tree with other parameters has failed on a tree
\* that holds a leaf.
C12_Witness ==
    /\ op.name = "create_note_tree"
    /\ pc = "FAILED"
    /\ pre.tree[op.h].init
    /\ op.args # <<pre.tree[op.h].max_depth, pre.tree[op.h].max_buffer_size>>
    /\ Len(LeavesBefore) >= 1

\* C13: in append and in update the Log Entry is emitted before the
\* append_leaf / replace_leaf request is made, and if the emission fails the
\* operation fails without making that request.
C13_EmitBeforeMutation ==
    op.name \in {"append_note", "update_note"}
    => /\ \A k \in CallsTo("append") \cup CallsTo("replace_leaf") :
             /\ k > 1
             /\ calls[k - 1].fn = "wrap_application_data_v1"
             /\ calls[k - 1].ok
             /\ calls[k - 1].args[1].leaf_node = calls[k].args[IF calls[k].fn = "append" THEN 1 ELSE 3]
             /\ log = Append(pre.log, calls[k - 1].args[1])
       /\ \A j \in CallsTo("wrap_application_data_v1") :
             ~calls[j].ok
             => /\ j = Len(calls)
                /\ pc = "FAILED"
                /\ op.result = "EmitError"
                /\ NoEffect

\* C13 witness: the emission of an update has failed.
C13_Witness ==
    /\ op.name = "update_note"
    /\ pc = "FAILED"
    /\ op.result = "EmitError"

\* C14: if an update fails at any of its steps 3 to 6 (verify, compute new
\* leaf, emit, replace), the tree's root and leaves are exactly what they were
\* before the update started.
C14_FailedUpdateKeepsTree ==
    (op.name = "update_note" /\ pc = "FAILED")
    => /\ tree = pre.tree
       /\ Root(Leaves) = Root(LeavesBefore)

\* C14 witness: an update has failed at its replace_leaf request, after
\* verifying and emitting.
C14_Witness ==
    /\ op.name = "update_note"
    /\ pc = "FAILED"
    /\ op.result = "ReplaceError"
    /\ Len(calls) = 3

\* The external calls of the program and the error each one's failure returns.
ErrorOf ==
    [fn \in {"init_empty_merkle_tree", "append", "verify_leaf", "replace_leaf",
             "wrap_application_data_v1"} |->
        CASE fn = "init_empty_merkle_tree" -> "InitError"
          [] fn = "append" -> "AppendError"
          [] fn = "verify_leaf" -> "VerifyError"
          [] fn = "replace_leaf" -> "ReplaceError"
          [] OTHER -> "EmitError"]

\* C15: within one operation each external call (init_empty, append_leaf,
\* verify_leaf, replace_leaf, emit) is made at most once; when any of them
\* fails the operation returns that failure immediately, makes no further
\* external call and never retries.
C15_NoRetry ==
    /\ \A fn \in DOMAIN ErrorOf : Cardinality(CallsTo(fn)) <= 1
    /\ \A k \in 1 .. Len(calls) :
          /\ calls[k].fn \in DOMAIN ErrorOf
          /\ ~calls[k].ok
             => /\ k = Len(calls)
                /\ pc = "FAILED"
                /\ op.result = ErrorOf[calls[k].fn]

\* C15 witness: an append has failed at its append request, after emitting.
C15_Witness ==
    /\ op.name = "append_note"
    /\ pc = "FAILED"
    /\ op.result = "AppendError"
    /\ Len(calls) = 2

\* The update in flight names a leaf by the note and the owner it was logged with:
\* the claimed root is current and the leaf at the claimed index has an entry
\* with the claimed old note and the caller's identity.
NamesLoggedLeaf ==
    /\ op.name = "update_note"
    /\ op.args[2] = Root(LeavesBefore)
    /\ op.args[1] < Len(LeavesBefore)
    /\ \E k \in 1 .. Len(pre.log) :
          /\ pre.log[k].leaf_node = LeavesBefore[op.args[1] + 1]
          /\ pre.log[k].note = op.args[3]
          /\ pre.log[k].owner = op.owner

\* C16: the leaf is computed by the same function on every path: the leaf
\* append commits for (c, id), the old leaf update verifies for (c, id) and
\* the new leaf update commits for (c, id) are all H(c || id), content first;
\* so an update that supplies the appended content, the appending identity,
\* the assigned index and the current root passes verification.
C16_OneLeafFunction ==
    /\ \A k \in CallsTo("append") : calls[k].args = <<hashv(op.args[1], op.owner)>>
    /\ \A k \in CallsTo("verify_leaf") : calls[k].args[2] = hashv(op.args[3], op.owner)
    /\ \A k \in CallsTo("replace_leaf") :
          /\ calls[k].args[2] = hashv(op.args[3], op.owner)
          /\ calls[k].args[3] = hashv(op.args[4], op.owner)
    /\ NamesLoggedLeaf
       => /\ op.result # "VerifyError"
          /\ \A k \in CallsTo("verify_leaf") : calls[k].ok

\* C16 witness: an update naming a logged leaf has passed verification.
C16_Witness ==
    /\ NamesLoggedLeaf
    /\ pc = "LOG"
    /\ calls[1].fn = "verify_leaf"
    /\ calls[1].ok

\* An instruction is in flight, between its entry and its return.
InFlight == ~Quiescent /\ ~Returned

\* The moves of an update between its stages: the equality check leads to VERIFY
\* or, for equal notes, out of the operation; each later gate leads to the
\* next stage or to the failure exit; a returned update is taken by the host.
UpdateMoves(notesEqual) ==
    {<<"idle", IF notesEqual THEN "DONE" ELSE "VERIFY">>,
     <<"VERIFY", "LOG">>, <<"VERIFY", "FAILED">>,
     <<"LOG", "REPLACE">>, <<"LOG", "FAILED">>,
     <<"REPLACE", "DONE">>, <<"REPLACE", "FAILED">>,
     <<"DONE", "idle">>, <<"FAILED", "idle">>}

\* Every step of an update moves it along UpdateMoves.
StageOrder ==
    /\ op.name = "update_note" => <<pc, pc'>> \in UpdateMoves(op.args[3] = op.args[4])
    /\ op'.name = "update_note" => <<pc, pc'>> \in UpdateMoves(op'.args[3] = op'.args[4])

LogGrows == Len(log) <= Len(log') /\ SubSeq(log', 1, Len(log)) = log

\* An append or update has returned successfully having changed its tree.
SuccessfulMutation ==
    /\ op.name \in {"append_note", "update_note", "append_message", "update_message"}
    /\ pc = "DONE"
    /\ tree # pre.tree

\* A returned successful mutation has added one entry to the log it started with.
OneEntryAdded == SuccessfulMutation => Len(log) = Len(pre.log) + 1 /\ SubSeq(log, 1, Len(pre.log)) = pre.log

ForeignUpdate ==
    /\ op.name = "update_note"
    /\ op.args[1] < Len(LeavesBefore)
    /\ op.args[2] = Root(LeavesBefore)
    /\ \E id1 \in Owners \ {op.owner} : LeavesBefore[op.args[1] + 1] = hashv(op.args[3], id1)

\* C19: a record can be replaced only by the identity that appended it: an
\* update issued with identity id2 against a leaf appended with another
\* identity id1 fails verification and changes neither tree nor log, even when
\* index, claimed root and old content are all correct.
C19_OnlyAppenderReplaces ==
    (ForeignUpdate /\ Returned) => op.result = "VerifyError" /\ NoEffect

\* What is left of C19 when the two notes differ: checked alongside, it holds.
C19_OnlyAppenderReplacesIfDifferent ==
    (op.name = "update_note" /\ op.args[3] # op.args[4]) => C19_OnlyAppenderReplaces

\* Whatever it returns, an update by another identity changes neither tree nor log.
C19_ForeignUpdateNoEffect == ForeignUpdate => NoEffect

\* Every replace_leaf request follows a verify_leaf request of the same
\* instruction with the same root, old leaf and index.
ReplaceAsVerified ==
    \A k \in CallsTo("replace_leaf") :
        \E j \in CallsTo("verify_leaf") :
            /\ j < k
            /\ calls[j].ok
            /\ calls[j].h = calls[k].h
            /\ calls[j].args = <<calls[k].args[1], calls[k].args[2], calls[k].args[4]>>

\* A successful update left the leaf count and every other leaf and tree as
\* they were and set the leaf at its index to the leaf of the new note.
OnlyLeafReplaced ==
    (op.name = "update_note" /\ pc = "DONE") =>
        /\ Len(Leaves) = Len(LeavesBefore)
        /\ op.args[1] < Len(Leaves)
        /\ \A i \in 1 .. Len(Leaves) : i # op.args[1] + 1 => Leaves[i] = LeavesBefore[i]
        /\ Leaves[op.args[1] + 1] = hashv(op.args[4], op.owner)
        /\ \A h \in Handles \ {op.h} : tree[h] = pre.tree[h]

\* C20: within one update the replace_leaf request carries exactly the root,
\* index and old leaf that the preceding verify_leaf request checked, and a
\* successful update changes only the leaf at that index (the number of leaves
\* and every other leaf are unchanged), setting it to leaf(new_content, identity).
C20_ReplaceFrame == ReplaceAsVerified /\ OnlyLeafReplaced

\* What is left of C20 when the two notes differ: checked alongside, it holds.
C20_ReplaceFrameIfDifferent ==
    (op.name = "update_note" /\ op.args[3] # op.args[4]) => C20_ReplaceFrame

\* The request half of C20 holds of every update.
C20_ReplaceAsVerified == ReplaceAsVerified

====
